---- MODULE Spec2Model ----
(***************************************************************************)
(* lintflow: the dispatch engine (package lint: Run, filter, marshal,      *)
(* routine) and the Gerrit review adapter (package review: Fetch, Vote,    *)
(* Clean).                                                                 *)
(*                                                                         *)
(* Strings are sequences of one-character strings, so that the path and    *)
(* suffix operations of the code (filepath.Ext, strings.TrimSuffix,        *)
(* filepath.Join, ...) are computed and not assumed.                       *)
(***************************************************************************)
EXTENDS Integers, Sequences, FiniteSets, TLC

\* ------------------------------------------------------------------ bounds

\* The longest file list handed to filter.
MaxFiles == 3
\* The longest include-extension list of a filter.
MaxExts == 2
\* The largest number of configured lint engines.
MaxEngines == 2
\* The longest list of findings handed to Vote.
MaxFindings == 3
\* The highest revision (patch set) number a change reaches.
MaxRevision == 2

\* ----------------------------------------------------------------- strings

SetMax(S) == CHOOSE x \in S : \A y \in S : y <= x

SeqsUpTo(S, n) == UNION {[1..k -> S] : k \in 0..n}

\* proto.Base64Content: the suffix of a staged content file.
Base64Content == <<".", "b", "a", "s", "e", "6", "4">>

\* proto.Base64Patch: the name of the staged patch.
Base64Patch == <<"p", ".", "b", "a", "s", "e", "6", "4">>

\* strings.HasSuffix
HasSuffix(s, suffix) ==
    /\ Len(s) >= Len(suffix)
    /\ SubSeq(s, Len(s) - Len(suffix) + 1, Len(s)) = suffix

\* strings.TrimSuffix: s without the trailing suffix, s itself when it does
\* not end with it.
TrimSuffix(s, suffix) ==
    IF HasSuffix(s, suffix) THEN SubSeq(s, 1, Len(s) - Len(suffix)) ELSE s

\* filepath.Ext: the suffix beginning at the final dot in the final
\* slash-separated element of path; empty if there is no dot.
Ext(path) ==
    LET dots == {i \in 1..Len(path) :
                    /\ path[i] = "."
                    /\ \A j \in i..Len(path) : path[j] # "/"}
    IN  IF dots = {} THEN <<>> ELSE SubSeq(path, SetMax(dots), Len(path))

\* The slash-separated components of p from index i, cur being the component
\* read so far.
RECURSIVE SplitFrom(_, _, _)
SplitFrom(p, i, cur) ==
    IF i > Len(p) THEN <<cur>>
    ELSE IF p[i] = "/" THEN <<cur>> \o SplitFrom(p, i + 1, <<>>)
    ELSE SplitFrom(p, i + 1, Append(cur, p[i]))

\* The components of cs from index i joined by slashes.
RECURSIVE JoinFrom(_, _)
JoinFrom(cs, i) ==
    IF i > Len(cs) THEN <<>>
    ELSE IF i = Len(cs) THEN cs[i]
    ELSE cs[i] \o <<"/">> \o JoinFrom(cs, i + 1)

\* The component stack of filepath.Clean: empty and "." components are
\* dropped, ".." removes the component before it (or, at the start of a
\* relative path, is kept).
RECURSIVE CleanStack(_, _, _, _)
CleanStack(cs, i, rooted, out) ==
    IF i > Len(cs) THEN out
    ELSE IF cs[i] = <<>> \/ cs[i] = <<".">> THEN CleanStack(cs, i + 1, rooted, out)
    ELSE IF cs[i] = <<".", ".">> THEN
        IF Len(out) > 0 /\ out[Len(out)] # <<".", ".">>
            THEN CleanStack(cs, i + 1, rooted, SubSeq(out, 1, Len(out) - 1))
        ELSE IF rooted THEN CleanStack(cs, i + 1, rooted, out)
        ELSE CleanStack(cs, i + 1, rooted, Append(out, cs[i]))
    ELSE CleanStack(cs, i + 1, rooted, Append(out, cs[i]))

\* filepath.Clean
Clean(p) ==
    IF p = <<>> THEN <<".">>
    ELSE LET rooted == p[1] = "/"
             body   == JoinFrom(CleanStack(SplitFrom(p, 1, <<>>), 1, rooted, <<>>), 1)
         IN  IF rooted THEN <<"/">> \o body
             ELSE IF body = <<>> THEN <<".">> ELSE body

\* filepath.Join of two elements: empty elements are ignored, the rest are
\* joined by slashes and cleaned; the empty string when both are empty.
Join(a, b) ==
    IF a = <<>> /\ b = <<>> THEN <<>>
    ELSE IF a = <<>> THEN Clean(b)
    ELSE IF b = <<>> THEN Clean(a)
    ELSE Clean(a \o <<"/">> \o b)

\* The index of the last slash of p, 0 when it has none.
LastSlash(p) ==
    LET S == {i \in 1..Len(p) : p[i] = "/"} IN IF S = {} THEN 0 ELSE SetMax(S)

\* p without its trailing slashes.
RECURSIVE StripSlashes(_)
StripSlashes(p) ==
    IF Len(p) > 0 /\ p[Len(p)] = "/" THEN StripSlashes(SubSeq(p, 1, Len(p) - 1))
    ELSE p

\* filepath.Base: the last element of the path.
Base(p) ==
    IF p = <<>> THEN <<".">>
    ELSE LET q == StripSlashes(p)
         IN  IF q = <<>> THEN <<"/">>
             ELSE SubSeq(q, LastSlash(q) + 1, Len(q))

\* filepath.Dir: all but the last element of the path, cleaned.
Dir(p) == Clean(SubSeq(p, 1, LastSlash(p)))

\* strconv.Itoa, for the numbers below 100.
Digit(n) == <<"0", "1", "2", "3", "4", "5", "6", "7", "8", "9">>[n + 1]
Itoa(n) == IF n < 10 THEN <<Digit(n)>> ELSE <<Digit(n \div 10), Digit(n % 10)>>

\* ------------------------------------------------------------------ filter

\* The helper closure of filter: whether one of the include extensions
\* equals the extension of the name with the content suffix trimmed.  The
\* loop over f.Include.Extension, from index i.
RECURSIVE filterHelperFrom(_, _, _)
filterHelperFrom(ext, data, i) ==
    IF i > Len(ext) THEN FALSE
    ELSE IF ext[i] = Ext(TrimSuffix(data, Base64Content)) THEN TRUE
    ELSE filterHelperFrom(ext, data, i + 1)

filterHelper(f, data) == filterHelperFrom(f.Include.Extension, data, 1)

\* The loop of filter over data, from index i, appending to buf.
RECURSIVE filterLoop(_, _, _, _)
filterLoop(f, data, i, buf) ==
    IF i > Len(data) THEN buf
    ELSE filterLoop(f, data, i + 1,
                    IF filterHelper(f, data[i]) THEN Append(buf, data[i]) ELSE buf)

\* A filter that forgets to trim the content suffix before taking the
\* extension.
filterNoTrim(f, data) ==
    SelectSeq(data, LAMBDA d : \E k \in 1..Len(f.Include.Extension) :
                                  f.Include.Extension[k] = Ext(d))

\* lint.filter
filter(f, data) == filterLoop(f, data, 1, <<>>)

\* ------------------------------------------------------------ Go values

\* An error is the chain of its messages, outermost first; nil is the empty
\* chain.  errors.Wrap(err, msg) puts msg before the chain of err.
NoErr == <<>>
Wrap(err, msg) == <<msg>> \o err
NewErr(msg) == <<msg>>

\* A slice (or a map, or a []byte) is its elements and whether it is nil.
NilSlice == [nil |-> TRUE, v |-> <<>>]
EmptySlice == [nil |-> FALSE, v |-> <<>>]
MkSlice(v) == [nil |-> FALSE, v |-> v]

\* m[k] = v on a map.
MapPut(m, k, v) == [x \in (DOMAIN m) \cup {k} |-> IF x = k THEN v ELSE m[x]]

\* ----------------------------------------------------------------- marshal

\* The helper closure of marshal: os.Open and ioutil.ReadAll of name.  fs
\* maps the path of every readable file to its content; any other path
\* fails to open.
marshalHelper(fs, name) ==
    IF name \in DOMAIN fs
        THEN [s |-> fs[name], err |-> NoErr]
        ELSE [s |-> "", err |-> Wrap(NewErr("no such file"), "failed to open")]

\* The loop of marshal over data, from index i: the map built, the error
\* that broke the loop, and the paths opened.
RECURSIVE marshalLoop(_, _, _, _, _, _)
marshalLoop(fs, root, data, i, buf, opened) ==
    IF i > Len(data) THEN [buf |-> buf, err |-> NoErr, opened |-> opened]
    ELSE IF data[i] = <<>>
        THEN [buf |-> buf, err |-> NewErr("invalid data"), opened |-> opened]
    ELSE LET name == Join(root, data[i])
             h    == marshalHelper(fs, name)
         IN  IF h.err # NoErr
                 THEN [buf |-> MapPut(buf, data[i], h.s), err |-> h.err,
                       opened |-> Append(opened, name)]
                 ELSE marshalLoop(fs, root, data, i + 1, MapPut(buf, data[i], h.s),
                                  Append(opened, name))

\* A marshal that returns from inside the loop, after the first file.
marshalFirstOnly(fs, root, data) ==
    LET l == marshalLoop(fs, root, SubSeq(data, 1, 1), 1, <<>>, <<>>)
    IN  IF DOMAIN l.buf = {}
            THEN [ret |-> NilSlice, err |-> NewErr("invalid data"), opened |-> l.opened]
        ELSE IF l.err # NoErr
            THEN [ret |-> NilSlice, err |-> Wrap(l.err, "failed to read"),
                  opened |-> l.opened]
        ELSE [ret |-> MkSlice(l.buf), err |-> NoErr, opened |-> l.opened]

\* lint.marshal: the payload is the JSON object of the map; json.Marshal of
\* a map of strings is canonical (sorted keys) and cannot fail, so the
\* payload is represented by the map.
marshal(fs, root, data) ==
    LET l == marshalLoop(fs, root, data, 1, <<>>, <<>>)
    IN  IF DOMAIN l.buf = {}
            THEN [ret |-> NilSlice, err |-> NewErr("invalid data"), opened |-> l.opened]
        ELSE IF l.err # NoErr
            THEN [ret |-> NilSlice, err |-> Wrap(l.err, "failed to read"),
                  opened |-> l.opened]
        ELSE [ret |-> MkSlice(l.buf), err |-> NoErr, opened |-> l.opened]

\* ----------------------------------------------------------------- routine

\* The orders in which a Go range may visit the keys of a map.
Perms(S) ==
    {p \in [1..Cardinality(S) -> S] : \A i, j \in 1..Cardinality(S) : p[i] = p[j] => i = j}

\* The lists of the groups, appended in the order the keys are visited.
RECURSIVE FlattenFrom(_, _, _)
FlattenFrom(groups, order, i) ==
    IF i > Len(order) THEN <<>>
    ELSE groups[order[i]] \o FlattenFrom(groups, order, i + 1)

\* The helper closure of routine: the reply message decoded into its groups
\* and flattened; append leaves ret nil when nothing is appended.  A set:
\* one result per order of the range over the map.
routineHelper(msg) ==
    IF ~msg.json
        THEN {[ret |-> NilSlice, err |-> Wrap(NewErr("invalid character"), "failed to unmarshal")]}
        ELSE {LET v == FlattenFrom(msg.groups, order, 1)
              IN  [ret |-> [nil |-> (v = <<>>), v |-> v], err |-> NoErr] :
                order \in Perms(DOMAIN msg.groups)}

\* lint.routine: dial, send the request, decode the reply.  env is what the
\* network and the engine do: whether the dial and the call succeed, and
\* the reply message.
routine(host, port, data, env) ==
    IF ~env.dial
        THEN {[ret |-> NilSlice, err |-> Wrap(NewErr("timeout"), "failed to dial")]}
    ELSE IF ~env.send
        THEN {[ret |-> NilSlice, err |-> Wrap(NewErr("deadline exceeded"), "failed to send")]}
    ELSE {IF h.err # NoErr
              THEN [ret |-> NilSlice, err |-> Wrap(h.err, "failed to get")]
              ELSE [ret |-> h.ret, err |-> NoErr] :
            h \in routineHelper(env.reply)}

\* ------------------------------------------------------------- review API

\* url.PathEscape of a file name: a slash becomes %2F (the names of the
\* model hold no other character that is escaped).
RECURSIVE PathEscape(_)
PathEscape(name) ==
    IF name = <<>> THEN <<>>
    ELSE (IF Head(name) = "/" THEN <<"%", "2", "F">> ELSE <<Head(name)>>)
             \o PathEscape(Tail(name))

\* Whether the URLs take the authenticated prefix /a and the requests carry
\* basic authentication.
Authenticated(r) == r.User # "" /\ r.Pass # ""

\* The URLs are kept as the fields their text is built from.
\* gerrit.urlQuery
urlQuery(r, search, option, start) ==
    [host |-> r.Host, port |-> r.Port, a |-> Authenticated(r), endpoint |-> "query",
     q |-> search, o |-> option, n |-> start]

\* gerrit.urlPatch
urlPatch(r, change, revision) ==
    [host |-> r.Host, port |-> r.Port, a |-> Authenticated(r), endpoint |-> "patch",
     change |-> change, revision |-> revision]

\* gerrit.urlContent
urlContent(r, change, revision, name) ==
    [host |-> r.Host, port |-> r.Port, a |-> Authenticated(r), endpoint |-> "content",
     change |-> change, revision |-> revision, file |-> PathEscape(name)]

\* gerrit.urlReview
urlReview(r, change, revision) ==
    [host |-> r.Host, port |-> r.Port, a |-> Authenticated(r), endpoint |-> "review",
     change |-> change, revision |-> revision]

\* The request gerrit.get and gerrit.post hand to the HTTP client.
Request(r, method, url, body) ==
    [method |-> method, url |-> url, body |-> body,
     auth |-> IF Authenticated(r) THEN <<r.User, r.Pass>> ELSE <<>>]

\* gerrit.get on the response rsp of the server: whether the round trip
\* succeeded, the status, whether the body could be read, and the body.
get(rsp) ==
    IF ~rsp.do THEN [data |-> NilSlice, err |-> Wrap(NewErr("connection refused"), "failed to do")]
    ELSE IF rsp.status # 200 THEN [data |-> NilSlice, err |-> NewErr("invalid status")]
    ELSE IF ~rsp.read THEN [data |-> NilSlice, err |-> Wrap(NewErr("unexpected EOF"), "failed to read")]
    ELSE [data |-> MkSlice(rsp.body), err |-> NoErr]

\* A post that does not look at the status of the response.
postIgnoreStatus(rsp) ==
    IF ~rsp.do THEN Wrap(NewErr("connection refused"), "failed to do")
    ELSE IF ~rsp.read THEN Wrap(NewErr("unexpected EOF"), "failed to read")
    ELSE NoErr

\* gerrit.post on the response rsp of the server.
post(rsp) ==
    IF ~rsp.do THEN Wrap(NewErr("connection refused"), "failed to do")
    ELSE IF rsp.status # 200 THEN NewErr("invalid status")
    ELSE IF ~rsp.read THEN Wrap(NewErr("unexpected EOF"), "failed to read")
    ELSE NoErr

\* A body of the query endpoint: whether it has the four bytes of the magic
\* prefix (short when it does not), whether what follows is a JSON list of
\* objects, and the list.  A change object is the set of its fields that
\* are present with the expected type, and their values.
\* gerrit.unmarshalList: data[4:] panics on a short body.
unmarshalList(data) ==
    IF data.short THEN [ret |-> <<>>, err |-> NoErr, panic |-> TRUE]
    ELSE IF ~data.json
        THEN [ret |-> <<>>, panic |-> FALSE,
              err |-> Wrap(NewErr("invalid character"), "failed to unmarshal")]
    ELSE IF Len(data.list) = 0
        THEN [ret |-> <<>>, err |-> NewErr("failed to match"), panic |-> FALSE]
    ELSE [ret |-> data.list[1], err |-> NoErr, panic |-> FALSE]

\* Whether the type assertions on the change object ret, shared by Fetch and
\* Vote, succeed: revisions is a map, current_revision a string that names
\* an object of it, and both _number fields are numbers.
AssertionsHold(ret) ==
    /\ "revisions" \in ret.fields
    /\ "current_revision" \in ret.fields
    /\ ret.current_revision \in DOMAIN ret.revisions
    /\ "_number" \in ret.fields
    /\ "_number" \in ret.revisions[ret.current_revision].fields

\* The loop of the helper closure of Vote over data, from index i, that
\* replaces the entries of a file by the latest one.
RECURSIVE voteCommentsOverwrite(_, _, _)
voteCommentsOverwrite(data, i, c) ==
    IF i > Len(data) THEN c
    ELSE voteCommentsOverwrite(data, i + 1,
             MapPut(c, data[i].File,
                    <<[line |-> data[i].Line, message |-> data[i].Details]>>))

\* The loop of the helper closure of Vote over data, from index i: the
\* comments map c gets one entry per finding, under the finding's file.
RECURSIVE voteComments(_, _, _)
voteComments(data, i, c) ==
    IF i > Len(data) THEN c
    ELSE LET b == [line |-> data[i].Line, message |-> data[i].Details]
         IN  voteComments(data, i + 1,
                 IF data[i].File \notin DOMAIN c
                     THEN MapPut(c, data[i].File, <<b>>)
                     ELSE MapPut(c, data[i].File, Append(c[data[i].File], b)))

\* A helper closure of Vote that tests data against nil.
voteHelperNilTest(r, data) ==
    IF data.nil
        THEN [comments |-> NilSlice,
              labels |-> [l \in {r.Vote.Label} |-> r.Vote.Approval],
              message |-> r.Vote.Message]
        ELSE [comments |-> MkSlice(voteComments(data.v, 1, <<>>)),
              labels |-> [l \in {r.Vote.Label} |-> r.Vote.Disapproval],
              message |-> r.Vote.Message]

\* The helper closure of Vote: the comments (a nil map when there are no
\* findings), the labels and the message of the review.
voteHelper(r, data) ==
    IF Len(data.v) = 0
        THEN [comments |-> NilSlice,
              labels |-> [l \in {r.Vote.Label} |-> r.Vote.Approval],
              message |-> r.Vote.Message]
        ELSE [comments |-> MkSlice(voteComments(data.v, 1, <<>>)),
              labels |-> [l \in {r.Vote.Label} |-> r.Vote.Disapproval],
              message |-> r.Vote.Message]

\* ------------------------------------------------------------------ Fetch

\* What was written of data when a write or a flush of it failed.
Partial(data) == [data EXCEPT !.whole = FALSE]

\* A helper closure that, when the write fails, removes the directory it
\* wrote into.
fetchHelperRollback(fs, dir, file, data, outcome) ==
    IF outcome = "mkdir"
        THEN [fs |-> fs, err |-> Wrap(NewErr("permission denied"), "failed to mkdir")]
    ELSE IF outcome = "create"
        THEN [fs |-> fs, err |-> Wrap(NewErr("permission denied"), "failed to create")]
    ELSE IF outcome = "write"
        THEN [fs |-> [q \in {x \in DOMAIN fs : SubSeq(x, 1, Len(dir)) # dir} |-> fs[q]],
              err |-> Wrap(NewErr("no space left on device"), "failed to write")]
    ELSE IF outcome = "flush"
        THEN [fs |-> MapPut(fs, Join(dir, file), Partial(data)), err |-> NoErr]
    ELSE [fs |-> MapPut(fs, Join(dir, file), data), err |-> NoErr]

\* The helper closure of Fetch: MkdirAll(dir), Create(dir/file), WriteString
\* into a bufio.Writer and, deferred, Flush (its error dropped) and Close.
\* outcome is what the file system does: the step that fails, "flush" for
\* a flush that fails after WriteString buffered the data, or "ok".  Create
\* truncates the file, so a failed write or flush leaves part of the data.
fetchHelper(fs, dir, file, data, outcome) ==
    LET name == Join(dir, file)
    IN  IF outcome = "mkdir"
            THEN [fs |-> fs, err |-> Wrap(NewErr("permission denied"), "failed to mkdir")]
        ELSE IF outcome = "create"
            THEN [fs |-> fs, err |-> Wrap(NewErr("permission denied"), "failed to create")]
        ELSE IF outcome = "write"
            THEN [fs |-> MapPut(fs, name, Partial(data)),
                  err |-> Wrap(NewErr("no space left on device"), "failed to write")]
        ELSE IF outcome = "flush"
            THEN [fs |-> MapPut(fs, name, Partial(data)), err |-> NoErr]
        ELSE [fs |-> MapPut(fs, name, data), err |-> NoErr]

WriteOutcomes == {"mkdir", "create", "write", "flush", "ok"}

\* Whether path is name or lies under the directory name.
Under(path, name) ==
    \/ path = name
    \/ /\ Len(path) > Len(name)
       /\ SubSeq(path, 1, Len(name)) = name
       /\ path[Len(name) + 1] = "/"

\* os.RemoveAll(name) on the files fs.
RemoveAll(fs, name) == [q \in {x \in DOMAIN fs : ~Under(x, name)} |-> fs[q]]

\* The root of Fetch: the working directory joined with "gerrit-" and the
\* date.
FetchRoot(d, date) == Join(d, <<"g", "e", "r", "r", "i", "t", "-">> \o date)

\* The directory of Fetch for a change and a revision under root.
FetchPath(root, changeNum, revId) == Join(Join(root, Itoa(changeNum)), revId)

\* ------------------------------------------------------------- the inputs

aGo     == <<"a", ".", "g", "o">>
bTxt    == <<"b", ".", "t", "x", "t">>
dcGo    == <<"d", "/", "c", ".", "g", "o">>
aGoB64  == aGo \o Base64Content
noExt   == <<"d", ".", "x", "/", "m">>
Empty   == <<>>

extGo   == <<".", "g", "o">>
extTxt  == <<".", "t", "x", "t">>
extB64  == Base64Content

FilterNames == {aGo, bTxt, dcGo, aGoB64, noExt, Empty}
FilterExts  == {extGo, extTxt, extB64, Empty}

MkFilter(exts) == [Include |-> [Extension |-> exts]]

\* proto.Format values, and the reply messages of an engine: not JSON, an
\* empty object, and two groups.  keys is the order in which the text of
\* the message lists the groups.
F1 == [File |-> aGo, Line |-> 3, Details |-> "m1"]
F2 == [File |-> bTxt, Line |-> 7, Details |-> "m2"]
F3 == [File |-> aGo, Line |-> 9, Details |-> "m3"]

ReplyBad   == [json |-> FALSE, groups |-> <<>>, keys |-> <<>>]
ReplyNone  == [json |-> TRUE, groups |-> <<>>, keys |-> <<>>]
ReplyTwo   == [json |-> TRUE, keys |-> <<"g1", "g2">>,
               groups |-> [k \in {"g1", "g2"} |-> IF k = "g1" THEN <<F1, F3>> ELSE <<F2>>]]

\* What the network and an engine may do on one call.
RpcEnvs ==
    {[dial |-> FALSE, send |-> FALSE, reply |-> ReplyBad],
     [dial |-> TRUE, send |-> FALSE, reply |-> ReplyBad],
     [dial |-> TRUE, send |-> TRUE, reply |-> ReplyBad],
     [dial |-> TRUE, send |-> TRUE, reply |-> ReplyNone],
     [dial |-> TRUE, send |-> TRUE, reply |-> ReplyTwo]}

\* config.Review: the review server, the credentials and the vote.
ReviewCfgs ==
    {[Host |-> "review", Port |-> 8080, User |-> c[1], Pass |-> c[2],
      Vote |-> [Label |-> "Code-Review", Approval |-> "+1", Disapproval |-> "-1",
                Message |-> "Voting Code-Review by lintflow"]] :
        c \in {<<"", "">>, <<"u", "p">>, <<"u", "">>}}

\* The commits looked up, with the number and files of the change of each.
Commits == {"c1", "c2"}
ChangeNumber(c) == IF c = "c1" THEN 7 ELSE 8
ChangeFiles(c) == IF c = "c1" THEN {aGo, dcGo} ELSE {aGo}

\* The identifier (a commit hash) of revision number n.
RevId(n) == <<"r", Digit(n)>>

\* The change object the server holds for commit c at revision rev, as the
\* query endpoint lists it.
ChangeObject(c, rev) ==
    [fields |-> {"revisions", "current_revision", "_number"},
     number |-> ChangeNumber(c),
     current_revision |-> RevId(rev),
     revisions |-> [id \in {RevId(rev)} |->
                      [fields |-> {"_number", "files"}, number |-> rev,
                       files |-> ChangeFiles(c)]]]

\* The change objects a success response may carry instead: a field
\* missing, or a current revision that the revisions do not hold.
Malformed(obj) ==
    {[obj EXCEPT !.fields = @ \ {f}] : f \in obj.fields}
    \cup {[obj EXCEPT !.revisions = [id \in DOMAIN @ |->
                                        [@[id] EXCEPT !.fields = @ \ {f}]]] :
             f \in {"_number", "files"}}
    \cup {[obj EXCEPT !.current_revision = <<"r", "0">>]}

\* The bodies of a success response of the query endpoint.
QueryBody(short, json, list) == [short |-> short, json |-> json, list |-> list]
QueryBodies(c, rev) ==
    {QueryBody(TRUE, FALSE, <<>>), QueryBody(FALSE, FALSE, <<>>),
     QueryBody(FALSE, TRUE, <<>>), QueryBody(FALSE, TRUE, <<ChangeObject(c, rev)>>)}
    \cup {QueryBody(FALSE, TRUE, <<obj>>) : obj \in Malformed(ChangeObject(c, rev))}

\* The responses to a request whose success bodies are bodies.
Rsp(do, status, read, body) == [do |-> do, status |-> status, read |-> read, body |-> body]
Rsps(bodies, none) ==
    {Rsp(FALSE, 0, FALSE, none), Rsp(TRUE, 500, TRUE, none), Rsp(TRUE, 200, FALSE, none)}
    \cup {Rsp(TRUE, 200, TRUE, b) : b \in bodies}

\* The working directory and the date of the runs.
Cwd == <<"/", "w">>
Today == <<"1", "1", "-", "0", "5">>

\* The runs of the program, and the commit each is given.
Runs == {"A", "B"}
CommitOf(r) == IF r = "A" THEN "c1" ELSE "c2"

\* What the server sends for the patch (file = Base64Patch) or the content
\* of a file of a change at a revision.
Payload(changeNum, revision, file) ==
    [change |-> changeNum, revision |-> revision, file |-> file, whole |-> TRUE]
NoPayload == [change |-> 0, revision |-> 0, file |-> <<>>, whole |-> FALSE]

\* The include lists of the engines that read what Fetch staged.
FetchLintExts == {<<extGo>>, <<Empty, extGo>>}

\* The findings handed to Vote.
VoteData ==
    {NilSlice, EmptySlice}
    \cup {MkSlice(x) : x \in SeqsUpTo({F1, F2, F3}, MaxFindings) \ {<<>>}}

\* The staging root handed to Run, and the staged files under it.
RunRoot == <<"/", "w", "/", "s">>
Staged(names) ==
    [q \in {Join(RunRoot, n) : n \in names} |->
        IF q = Join(RunRoot, aGo) THEN "content of a.go"
        ELSE IF q = Join(RunRoot, bTxt) THEN "content of b.txt"
        ELSE "content of d/c.go"]

\* The arguments of Run with the staging directory they are run on.
RunInputs ==
    {[files |-> <<aGo, dcGo, bTxt>>, fs |-> Staged({aGo, dcGo, bTxt})],
     [files |-> <<aGo, dcGo>>, fs |-> Staged({aGo})],
     [files |-> <<Empty, aGo>>, fs |-> Staged({aGo})],
     [files |-> <<bTxt, Empty>>, fs |-> Staged({bTxt})]}

\* The include lists of the configured engines.
LintExts == {<<extGo>>, <<Empty, extTxt>>}

\* config.Lint of the i-th engine.
MkLint(i, exts) ==
    [Filter |-> MkFilter(exts), Host |-> <<"h", Digit(i)>>, Port |-> 9]

\* ------------------------------------------------------------------- state

VARIABLES
    fIn,        \* filter: the arguments of the call, [f, data]
    fOut,       \* filter: the value returned
    fPc,        \* filter: "call" before the call, "done" after
    cfg,        \* lint.cfg: [Lints], the configured engines in order
    rIn,        \* Run: the arguments, [root, files]
    disk,       \* local storage: the content of every readable file, by path
    g,          \* Run: each engine goroutine's position and locals f, m, e, r,
                \*      and (history) which of its steps returned an error
    ch,         \* Run: the buffered result channel, oldest first
    a,          \* Run: the calling goroutine: position, goroutines launched,
                \*      iterations of the drain loop done, ret
    rOut,       \* Run: the values returned, [data, err]
    rpcCalls,   \* history: per engine, the requests it sent, in order, each
                \*          with what the network and the engine did on it
    opened,     \* history: per engine, the paths marshal opened, in order
    sendLog,    \* history: every result put on the channel, in order
    drained,    \* history: every result the drain loop received, in order
    rv,         \* gerrit.r: the review configuration
    srv,        \* the review server: the current revision number of each commit
    vIn,        \* Vote: the arguments, [commit, data]
    vt,         \* Vote: position, the change and revision numbers decoded, and
                \*       the error returned
    http,       \* history: every request handed to the HTTP client, in order
    replies,    \* history: the response to each request of http, in order
    runs,       \* the runs under way
    fe,         \* Fetch, per run: position, locals, the values returned and
                \*        (history) its requests, their responses, the downloads
    dr          \* per run: what marshal returned on the root and files of Fetch

filterVars == <<fIn, fOut, fPc>>
lintVars == <<cfg, rIn, g, ch, a, rOut, rpcCalls, opened, sendLog, drained>>
runVars == <<lintVars, disk>>
voteVars == <<rv, srv, vIn, vt, http, replies>>
fetchVars == <<runs, fe, dr>>
vars == <<filterVars, runVars, voteVars, fetchVars>>

Engines == 1..Len(cfg.Lints)

\* cap(ch)
Cap == Len(cfg.Lints)

\* The states in which no Run is under way.
RunIdle ==
    /\ cfg = [Lints |-> <<>>]
    /\ rIn = [root |-> <<>>, files |-> <<>>]
    /\ disk = <<>>
    /\ g = <<>>
    /\ ch = <<>>
    /\ a = [pc |-> "done", k |-> 0, i |-> 0, ret |-> NilSlice]
    /\ rOut = [data |-> NilSlice, err |-> NoErr]
    /\ rpcCalls = <<>>
    /\ opened = <<>>
    /\ sendLog = <<>>
    /\ drained = <<>>

FetchIdle ==
    /\ runs = {}
    /\ fe = <<>>
    /\ dr = <<>>

VoteIdle ==
    /\ rv \in {r \in ReviewCfgs : r.User = ""}
    /\ srv = [c \in Commits |-> 1]
    /\ vIn = [commit |-> "c1", data |-> NilSlice]
    /\ vt = [pc |-> "done", change |-> 0, revision |-> 0, err |-> NoErr]
    /\ http = <<>>
    /\ replies = <<>>

FilterIdle ==
    /\ fIn = [f |-> MkFilter(<<>>), data |-> <<>>]
    /\ fOut = <<>>
    /\ fPc = "done"

\* ----------------------------------------------- specification of filter

FilterInit ==
    /\ fIn \in [f : {MkFilter(x) : x \in SeqsUpTo(FilterExts, MaxExts)},
                data : SeqsUpTo(FilterNames, MaxFiles)]
    /\ fOut = <<>>
    /\ fPc = "call"
    /\ RunIdle
    /\ VoteIdle
    /\ FetchIdle

FilterCall ==
    /\ fPc = "call"
    /\ fOut' = filter(fIn.f, fIn.data)
    /\ fPc' = "done"
    /\ UNCHANGED <<fIn, runVars, voteVars, fetchVars>>

FilterNext == FilterCall

SpecFilter == FilterInit /\ [][FilterNext]_vars

\* -------------------------------------------------- specification of Run

RunInit ==
    /\ FilterIdle
    /\ VoteIdle
    /\ FetchIdle
    /\ \E n \in 0..MaxEngines : \E exts \in [1..n -> LintExts] :
           cfg = [Lints |-> [i \in 1..n |-> MkLint(i, exts[i])]]
    /\ \E in \in RunInputs :
           /\ rIn = [root |-> RunRoot, files |-> in.files]
           /\ disk = in.fs
    /\ g = [e \in Engines |->
               [pc |-> "idle", f |-> <<>>, m |-> NilSlice, e |-> NoErr, r |-> NilSlice,
                failed |-> {}]]
    /\ ch = <<>>
    /\ a = [pc |-> "run", k |-> 0, i |-> 0, ret |-> NilSlice]
    /\ rOut = [data |-> NilSlice, err |-> NoErr]
    /\ rpcCalls = [e \in Engines |-> <<>>]
    /\ opened = [e \in Engines |-> <<>>]
    /\ sendLog = <<>>
    /\ drained = <<>>

\* ch <- result{data, err} by engine e: blocks while the buffer is full.
Send(e, data, err, next) ==
    /\ Len(ch) < Cap
    /\ ch' = Append(ch, [from |-> e, data |-> data, err |-> err])
    /\ sendLog' = Append(sendLog, [from |-> e, data |-> data, err |-> err])
    /\ g' = [g EXCEPT ![e].pc = next]

\* The for loop over cfg.Lints: go func(...) for the next engine.
Launch ==
    /\ a.pc = "run"
    /\ a.k < Len(cfg.Lints)
    /\ g' = [g EXCEPT ![a.k + 1].pc = "start"]
    /\ a' = [a EXCEPT !.k = a.k + 1]
    /\ UNCHANGED <<filterVars, voteVars, fetchVars, cfg, rIn, disk, ch, rOut, rpcCalls, opened, sendLog, drained>>

\* A goroutine that tests the unfiltered list, so that an engine none of
\* whose files pass its filter goes on to marshal.
StartNoShortCircuit(e) ==
    /\ g[e].pc = "start"
    /\ LET f == filter(cfg.Lints[e].Filter, rIn.files)
           m == marshal(disk, rIn.root, f)
       IN  IF Len(rIn.files) # 0
               THEN /\ g' = [g EXCEPT ![e].f = f, ![e].m = m.ret, ![e].e = m.err,
                                     ![e].failed = IF m.err # NoErr THEN {"marshal"} ELSE {},
                                     ![e].pc = IF m.err # NoErr THEN "sendMarshalErr"
                                               ELSE "routine"]
                    /\ opened' = [opened EXCEPT ![e] = m.opened]
               ELSE /\ g' = [g EXCEPT ![e].f = f, ![e].pc = "sendEmpty"]
                    /\ UNCHANGED opened
    /\ UNCHANGED <<filterVars, voteVars, fetchVars, cfg, rIn, disk, ch, a, rOut, rpcCalls, sendLog, drained>>

\* The goroutine of engine e: filter, and marshal when the filtered list is
\* not empty.
Start(e) ==
    /\ g[e].pc = "start"
    /\ LET f == filter(cfg.Lints[e].Filter, rIn.files)
           m == marshal(disk, rIn.root, f)
       IN  IF Len(f) # 0
               THEN /\ g' = [g EXCEPT ![e].f = f, ![e].m = m.ret, ![e].e = m.err,
                                     ![e].failed = IF m.err # NoErr THEN {"marshal"} ELSE {},
                                     ![e].pc = IF m.err # NoErr THEN "sendMarshalErr"
                                               ELSE "routine"]
                    /\ opened' = [opened EXCEPT ![e] = m.opened]
               ELSE /\ g' = [g EXCEPT ![e].f = f, ![e].pc = "sendEmpty"]
                    /\ UNCHANGED opened
    /\ UNCHANGED <<filterVars, voteVars, fetchVars, cfg, rIn, disk, ch, a, rOut, rpcCalls, sendLog, drained>>

\* ch <- result{nil, errors.Wrap(e, "failed to marshal")}; the goroutine
\* goes on to the call of routine.
SendMarshalErr(e) ==
    /\ g[e].pc = "sendMarshalErr"
    /\ Send(e, NilSlice, Wrap(g[e].e, "failed to marshal"), "routine")
    /\ UNCHANGED <<filterVars, voteVars, fetchVars, cfg, rIn, disk, a, rOut, rpcCalls, opened, drained>>

\* r, e := l.routine(val.Host, val.Port, m)
Routine(e) ==
    /\ g[e].pc = "routine"
    /\ \E env \in RpcEnvs :
         \E res \in routine(cfg.Lints[e].Host, cfg.Lints[e].Port, g[e].m, env) :
           /\ g' = [g EXCEPT ![e].r = res.ret, ![e].e = res.err,
                            ![e].failed = IF res.err # NoErr THEN @ \cup {"routine"} ELSE @,
                            ![e].pc = IF res.err # NoErr THEN "sendRoutineErr"
                                      ELSE "sendResult"]
           /\ rpcCalls' = [rpcCalls EXCEPT ![e] =
                  Append(@, [addr |-> cfg.Lints[e].Host \o <<":">> \o Itoa(cfg.Lints[e].Port),
                             message |-> g[e].m, env |-> env])]
    /\ UNCHANGED <<filterVars, voteVars, fetchVars, cfg, rIn, disk, ch, a, rOut, opened, sendLog, drained>>

\* ch <- result{nil, errors.Wrap(e, "failed to routine")}; the goroutine
\* goes on to the send of r.
SendRoutineErr(e) ==
    /\ g[e].pc = "sendRoutineErr"
    /\ Send(e, NilSlice, Wrap(g[e].e, "failed to routine"), "sendResult")
    /\ UNCHANGED <<filterVars, voteVars, fetchVars, cfg, rIn, disk, a, rOut, rpcCalls, opened, drained>>

\* ch <- result{r, nil}
SendResult(e) ==
    /\ g[e].pc = "sendResult"
    /\ Send(e, g[e].r, NoErr, "done")
    /\ UNCHANGED <<filterVars, voteVars, fetchVars, cfg, rIn, disk, a, rOut, rpcCalls, opened, drained>>

\* A goroutine that ends without a result when no file passes the filter.
SendEmptySkip(e) ==
    /\ g[e].pc = "sendEmpty"
    /\ g' = [g EXCEPT ![e].pc = "done"]
    /\ UNCHANGED <<filterVars, voteVars, fetchVars, cfg, rIn, disk, ch, a, rOut, rpcCalls, opened, sendLog, drained>>

\* ch <- result{[]proto.Format{}, nil}
SendEmpty(e) ==
    /\ g[e].pc = "sendEmpty"
    /\ Send(e, EmptySlice, NoErr, "done")
    /\ UNCHANGED <<filterVars, voteVars, fetchVars, cfg, rIn, disk, a, rOut, rpcCalls, opened, drained>>

\* A drain loop that keeps draining after an error and returns what it
\* gathered.
RecvIgnoreErr ==
    /\ a.pc = "run"
    /\ a.k = Len(cfg.Lints)
    /\ a.i < Len(cfg.Lints)
    /\ Len(ch) > 0
    /\ ch' = Tail(ch)
    /\ drained' = Append(drained, Head(ch))
    /\ a' = [a EXCEPT !.i = a.i + 1,
                      !.ret = IF Len(Head(ch).data.v) # 0
                                  THEN MkSlice(a.ret.v \o Head(ch).data.v) ELSE a.ret]
    /\ UNCHANGED <<filterVars, voteVars, fetchVars, cfg, rIn, disk, g, rOut, rpcCalls, opened, sendLog>>

\* A drain loop that puts each result before those gathered so far.
RecvPrepend ==
    /\ a.pc = "run"
    /\ a.k = Len(cfg.Lints)
    /\ a.i < Len(cfg.Lints)
    /\ Len(ch) > 0
    /\ ch' = Tail(ch)
    /\ drained' = Append(drained, Head(ch))
    /\ IF Head(ch).err # NoErr
           THEN /\ rOut' = [data |-> NilSlice, err |-> Head(ch).err]
                /\ a' = [a EXCEPT !.pc = "done"]
           ELSE /\ a' = [a EXCEPT !.i = a.i + 1,
                                  !.ret = IF Len(Head(ch).data.v) # 0
                                              THEN MkSlice(Head(ch).data.v \o a.ret.v)
                                              ELSE a.ret]
                /\ UNCHANGED rOut
    /\ UNCHANGED <<filterVars, voteVars, fetchVars, cfg, rIn, disk, g, rpcCalls, opened, sendLog>>

\* A drain loop that keeps the findings of the latest result only.
RecvOverwrite ==
    /\ a.pc = "run"
    /\ a.k = Len(cfg.Lints)
    /\ a.i < Len(cfg.Lints)
    /\ Len(ch) > 0
    /\ ch' = Tail(ch)
    /\ drained' = Append(drained, Head(ch))
    /\ IF Head(ch).err # NoErr
           THEN /\ rOut' = [data |-> NilSlice, err |-> Head(ch).err]
                /\ a' = [a EXCEPT !.pc = "done"]
           ELSE /\ a' = [a EXCEPT !.i = a.i + 1,
                                  !.ret = IF Len(Head(ch).data.v) # 0
                                              THEN MkSlice(Head(ch).data.v) ELSE a.ret]
                /\ UNCHANGED rOut
    /\ UNCHANGED <<filterVars, voteVars, fetchVars, cfg, rIn, disk, g, rpcCalls, opened, sendLog>>

\* One iteration of the drain loop: r := <-ch, return on an error, append
\* the findings otherwise.
Recv ==
    /\ a.pc = "run"
    /\ a.k = Len(cfg.Lints)
    /\ a.i < Len(cfg.Lints)
    /\ Len(ch) > 0
    /\ ch' = Tail(ch)
    /\ drained' = Append(drained, Head(ch))
    /\ IF Head(ch).err # NoErr
           THEN /\ rOut' = [data |-> NilSlice, err |-> Head(ch).err]
                /\ a' = [a EXCEPT !.pc = "done"]
           ELSE /\ a' = [a EXCEPT !.i = a.i + 1,
                                  !.ret = IF Len(Head(ch).data.v) # 0
                                              THEN MkSlice(a.ret.v \o Head(ch).data.v)
                                              ELSE a.ret]
                /\ UNCHANGED rOut
    /\ UNCHANGED <<filterVars, voteVars, fetchVars, cfg, rIn, disk, g, rpcCalls, opened, sendLog>>

\* return ret, nil after the drain loop.
Return ==
    /\ a.pc = "run"
    /\ a.k = Len(cfg.Lints)
    /\ a.i = Len(cfg.Lints)
    /\ rOut' = [data |-> a.ret, err |-> NoErr]
    /\ a' = [a EXCEPT !.pc = "done"]
    /\ UNCHANGED <<filterVars, voteVars, fetchVars, cfg, rIn, disk, g, ch, rpcCalls, opened, sendLog, drained>>

RunNext ==
    \/ Launch
    \/ Recv
    \/ Return
    \/ \E e \in Engines : Start(e)
    \/ \E e \in Engines : SendMarshalErr(e)
    \/ \E e \in Engines : Routine(e)
    \/ \E e \in Engines : SendRoutineErr(e)
    \/ \E e \in Engines : SendResult(e)
    \/ \E e \in Engines : SendEmpty(e)

SpecRun == RunInit /\ [][RunNext]_vars

\* A step of the goroutine of the e-th engine, when there is one, after its
\* filter and marshal.
Goroutine(e) ==
    /\ e \in Engines
    /\ \/ SendMarshalErr(e)
       \/ Routine(e)
       \/ SendRoutineErr(e)
       \/ SendResult(e)
       \/ SendEmpty(e)

\* Run under the Go scheduler: a goroutine that can take a step, the
\* calling one included, eventually takes it; reads of staged files and
\* calls to engines return.  Start(e) is enabled exactly while the goroutine
\* is at "start" and always leaves it, so weak fairness of Start(e) is that
\* the goroutine is infinitely often not at "start".
LiveRun ==
    /\ RunInit
    /\ [][RunNext]_vars
    /\ WF_vars(Launch)
    /\ WF_vars(Recv)
    /\ WF_vars(Return)
    /\ \A e \in 1..MaxEngines : WF_vars(Goroutine(e))
    /\ \A e \in 1..MaxEngines : []<>(e \in Engines => g[e].pc # "start")

\* ------------------------------------------------- specification of Vote

VoteInit ==
    /\ FilterIdle
    /\ RunIdle
    /\ FetchIdle
    /\ rv \in ReviewCfgs
    /\ srv = [c \in Commits |-> 1]
    /\ vIn \in [commit : Commits, data : VoteData]
    /\ vt = [pc |-> "query", change |-> 0, revision |-> 0, err |-> NoErr]
    /\ http = <<>>
    /\ replies = <<>>

\* A new revision of the change of commit c is uploaded to the server.
Advance(c) ==
    /\ srv[c] < MaxRevision
    /\ srv' = [srv EXCEPT ![c] = @ + 1]
    /\ UNCHANGED <<filterVars, runVars, fetchVars, rv, vIn, vt, http, replies>>

\* Vote up to the review: the query of the commit, the decoding of its
\* response and the type assertions on the change.
VoteQuery ==
    /\ vt.pc = "query"
    /\ \E rsp \in Rsps(QueryBodies(vIn.commit, srv[vIn.commit]), QueryBody(TRUE, FALSE, <<>>)) :
         LET url == urlQuery(rv, <<"commit:", vIn.commit>>, <<"CURRENT_REVISION">>, 0)
             r   == get(rsp)
             u   == unmarshalList(r.data.v)
         IN  /\ http' = Append(http, Request(rv, "GET", url, <<>>))
             /\ replies' = Append(replies, rsp)
             /\ vt' = IF r.err # NoErr
                          THEN [vt EXCEPT !.pc = "done", !.err = Wrap(r.err, "failed to query")]
                      ELSE IF u.panic THEN [vt EXCEPT !.pc = "panic"]
                      ELSE IF u.err # NoErr
                          THEN [vt EXCEPT !.pc = "done", !.err = Wrap(u.err, "failed to unmarshal")]
                      ELSE IF ~AssertionsHold(u.ret) THEN [vt EXCEPT !.pc = "panic"]
                      ELSE [vt EXCEPT !.pc = "review", !.change = u.ret.number,
                                      !.revision = u.ret.revisions[u.ret.current_revision].number]
    /\ UNCHANGED <<filterVars, runVars, fetchVars, rv, srv, vIn>>

\* The rest of Vote: the review built by the helper closure is posted.
VoteReview ==
    /\ vt.pc = "review"
    /\ \E rsp \in Rsps({<<>>}, <<>>) :
         LET h   == voteHelper(rv, vIn.data)
             buf == [comments |-> h.comments, labels |-> h.labels, message |-> h.message]
             err == post(rsp)
         IN  /\ http' = Append(http, Request(rv, "POST",
                                             urlReview(rv, vt.change, vt.revision), buf))
             /\ replies' = Append(replies, rsp)
             /\ vt' = [vt EXCEPT !.pc = "done",
                                 !.err = IF err # NoErr THEN Wrap(err, "failed to review")
                                         ELSE NoErr]
    /\ UNCHANGED <<filterVars, runVars, fetchVars, rv, srv, vIn>>

VoteNext ==
    \/ \E c \in Commits : Advance(c)
    \/ VoteQuery
    \/ VoteReview

SpecVote == VoteInit /\ [][VoteNext]_vars

\* ------------------------------------------------ specification of Fetch

FetchInit ==
    /\ FilterIdle
    /\ RunIdle
    /\ rv \in ReviewCfgs
    /\ srv = [c \in Commits |-> 1]
    /\ vIn = [commit |-> "c1", data |-> NilSlice]
    /\ vt = [pc |-> "done", change |-> 0, revision |-> 0, err |-> NoErr]
    /\ http = <<>>
    /\ replies = <<>>
    /\ runs \in {{"A"}, Runs}
    /\ fe = [r \in runs |->
                [pc |-> "query", root |-> <<>>, path |-> <<>>, change |-> 0,
                 revision |-> 0, current |-> <<>>, keys |-> <<>>, k |-> 0,
                 buf |-> NoPayload, rname |-> <<>>, flist |-> NilSlice, emsg |-> NoErr,
                 reqs |-> <<>>, rsps |-> <<>>, got |-> <<>>]]
    /\ dr = [r \in runs |-> [pc |-> "none", f |-> <<>>, ret |-> NilSlice, err |-> NoErr]]

\* Fetch returns ("", nil, err).
FetchFail(r, err) == [fe EXCEPT ![r].pc = "failed", ![r].emsg = err]

\* Fetch up to the download of the patch: the working directory and the
\* root, the query of the commit, the decoding of its response, the type
\* assertions on the change and the path.
FetchQuery(r) ==
    /\ fe[r].pc = "query"
    /\ \E wd \in BOOLEAN :
        \E rsp \in Rsps(QueryBodies(CommitOf(r), srv[CommitOf(r)]), QueryBody(TRUE, FALSE, <<>>)) :
         LET root == FetchRoot(Cwd, Today)
             url  == urlQuery(rv, <<"commit:", CommitOf(r)>>,
                              <<"CURRENT_FILES", "CURRENT_REVISION">>, 0)
             q    == get(rsp)
             u    == unmarshalList(q.data.v)
             cur  == u.ret.revisions[u.ret.current_revision]
         IN  IF ~wd
                 THEN fe' = FetchFail(r, Wrap(NewErr("no such directory"), "failed to getwd"))
             ELSE IF q.err # NoErr
                 THEN fe' = [FetchFail(r, Wrap(q.err, "failed to query")) EXCEPT
                                ![r].reqs = Append(@, Request(rv, "GET", url, <<>>)),
                                   ![r].rsps = Append(@, rsp)]
             ELSE IF u.panic
                 THEN fe' = [fe EXCEPT ![r].pc = "panic",
                                       ![r].reqs = Append(@, Request(rv, "GET", url, <<>>)),
                                   ![r].rsps = Append(@, rsp)]
             ELSE IF u.err # NoErr
                 THEN fe' = [FetchFail(r, Wrap(u.err, "failed to unmarshal")) EXCEPT
                                ![r].reqs = Append(@, Request(rv, "GET", url, <<>>)),
                                   ![r].rsps = Append(@, rsp)]
             ELSE IF ~AssertionsHold(u.ret)
                 THEN fe' = [fe EXCEPT ![r].pc = "panic",
                                       ![r].reqs = Append(@, Request(rv, "GET", url, <<>>)),
                                   ![r].rsps = Append(@, rsp)]
             ELSE fe' = [fe EXCEPT ![r].pc = "patch",
                                   ![r].root = root,
                                   ![r].change = u.ret.number,
                                   ![r].revision = cur.number,
                                   ![r].current = cur,
                                   ![r].path = FetchPath(root, u.ret.number, u.ret.current_revision),
                                   ![r].reqs = Append(@, Request(rv, "GET", url, <<>>)),
                                   ![r].rsps = Append(@, rsp)]
    /\ UNCHANGED <<filterVars, runVars, voteVars, runs, dr>>

\* buf, err := g.get(g.urlPatch(changeNum, revisionNum))
FetchPatch(r) ==
    /\ fe[r].pc = "patch"
    /\ \E rsp \in Rsps({Payload(fe[r].change, fe[r].revision, Base64Patch)}, NoPayload) :
         LET url == urlPatch(rv, fe[r].change, fe[r].revision)
             q   == get(rsp)
         IN  fe' = [(IF q.err # NoErr THEN FetchFail(r, Wrap(q.err, "failed to patch"))
                     ELSE [fe EXCEPT ![r].pc = "writePatch", ![r].buf = q.data.v,
                                     ![r].got = MapPut(@, Base64Patch, q.data.v)])
                    EXCEPT ![r].reqs = Append(@, Request(rv, "GET", url, <<>>)),
                                   ![r].rsps = Append(@, rsp)]
    /\ UNCHANGED <<filterVars, runVars, voteVars, runs, dr>>

\* err = helper(path, proto.Base64Patch, string(buf)), and the type
\* assertion on the files of the revision, whose keys the loop ranges over.
FetchWritePatch(r) ==
    /\ fe[r].pc = "writePatch"
    /\ \E outcome \in WriteOutcomes : \E order \in Perms(fe[r].current.files) :
         LET h == fetchHelper(disk, fe[r].path, Base64Patch, fe[r].buf, outcome)
         IN  /\ disk' = h.fs
             /\ fe' = IF h.err # NoErr THEN FetchFail(r, Wrap(h.err, "failed to fetch"))
                      ELSE IF "files" \notin fe[r].current.fields
                          THEN [fe EXCEPT ![r].pc = "panic"]
                      ELSE [fe EXCEPT ![r].keys = order, ![r].k = 1,
                                      ![r].pc = IF Len(order) = 0 THEN "return" ELSE "content"]
    /\ UNCHANGED <<filterVars, lintVars, voteVars, runs, dr>>

\* buf, err := g.get(g.urlContent(changeNum, revisionNum, key))
FetchContent(r) ==
    /\ fe[r].pc = "content"
    /\ LET key == fe[r].keys[fe[r].k]
       IN  \E rsp \in Rsps({Payload(fe[r].change, fe[r].revision, key)}, NoPayload) :
             LET url == urlContent(rv, fe[r].change, fe[r].revision, key)
                 q   == get(rsp)
             IN  fe' = [(IF q.err # NoErr THEN FetchFail(r, Wrap(q.err, "failed to content"))
                         ELSE [fe EXCEPT ![r].pc = "writeContent", ![r].buf = q.data.v,
                                         ![r].got = MapPut(@, key, q.data.v)])
                        EXCEPT ![r].reqs = Append(@, Request(rv, "GET", url, <<>>)),
                                   ![r].rsps = Append(@, rsp)]
    /\ UNCHANGED <<filterVars, runVars, voteVars, runs, dr>>

\* err = helper(filepath.Join(path, filepath.Dir(key)),
\*              filepath.Base(key)+proto.Base64Content, string(buf))
FetchWriteContent(r) ==
    /\ fe[r].pc = "writeContent"
    /\ \E outcome \in WriteOutcomes :
         LET key == fe[r].keys[fe[r].k]
             h   == fetchHelper(disk, Join(fe[r].path, Dir(key)),
                                Base(key) \o Base64Content, fe[r].buf, outcome)
         IN  /\ disk' = h.fs
             /\ fe' = IF h.err # NoErr THEN FetchFail(r, Wrap(h.err, "failed to fetch"))
                      ELSE [fe EXCEPT ![r].k = @ + 1,
                                      ![r].pc = IF fe[r].k = Len(fe[r].keys) THEN "return"
                                                ELSE "content"]
    /\ UNCHANGED <<filterVars, lintVars, voteVars, runs, dr>>

\* The list of files, the patch first and then the keys in the order of a
\* second range over the map, and return root, files, nil.
FetchReturn(r) ==
    /\ fe[r].pc = "return"
    /\ \E order \in Perms(fe[r].current.files) :
         fe' = [fe EXCEPT ![r].pc = "fetched", ![r].rname = fe[r].root,
                          ![r].flist = MkSlice(<<Base64Patch>> \o order)]
    /\ UNCHANGED <<filterVars, runVars, voteVars, runs, dr>>

\* The dispatch of the run: an engine goroutine of Run(root, files) on what
\* Fetch returned filters the files and, when some are left, marshals them.
DispatchRead(r) ==
    /\ fe[r].pc = "fetched"
    /\ dr[r].pc = "none"
    /\ \E exts \in FetchLintExts :
         LET f == filter(MkFilter(exts), fe[r].flist.v)
             m == marshal(disk, fe[r].rname, f)
         IN  dr' = [dr EXCEPT ![r] = IF Len(f) # 0
                                         THEN [pc |-> "read", f |-> f, ret |-> m.ret, err |-> m.err]
                                         ELSE [pc |-> "skipped", f |-> f, ret |-> NilSlice,
                                               err |-> NoErr]]
    /\ UNCHANGED <<filterVars, runVars, voteVars, runs, fe>>

\* gerrit.Clean(name) on the root Fetch returned, after the dispatch.
CleanRoot(r) ==
    /\ fe[r].pc = "fetched"
    /\ dr[r].pc # "none"
    /\ \E ok \in BOOLEAN :
         /\ disk' = IF ok THEN RemoveAll(disk, fe[r].rname) ELSE disk
         /\ fe' = [fe EXCEPT ![r].pc = "cleaned",
                             ![r].emsg = IF ok THEN NoErr
                                         ELSE Wrap(NewErr("permission denied"), "failed to clean")]
    /\ UNCHANGED <<filterVars, lintVars, voteVars, runs, dr>>

FetchNext ==
    \/ \E r \in runs : FetchQuery(r)
    \/ \E r \in runs : FetchPatch(r)
    \/ \E r \in runs : FetchWritePatch(r)
    \/ \E r \in runs : FetchContent(r)
    \/ \E r \in runs : FetchWriteContent(r)
    \/ \E r \in runs : FetchReturn(r)
    \/ \E r \in runs : DispatchRead(r)
    \/ \E r \in runs : CleanRoot(r)

SpecFetch == FetchInit /\ [][FetchNext]_vars

\* ------------------------------------------------------------------ claims

\* The indices of data whose name has an included extension, the extension
\* taken after the content suffix is stripped.
KeptIdx(exts, data) ==
    {i \in 1..Len(data) :
        \E k \in 1..Len(exts) : exts[k] = Ext(TrimSuffix(data[i], Base64Content))}

\* The j-th smallest element of a set of naturals.
NthOf(S, j) == CHOOSE i \in S : Cardinality({k \in S : k <= i}) = j

\* C8: filter returns exactly the sub-sequence of the input whose extension,
\* computed after stripping the content suffix, is in the include set: as
\* many elements as there are matching positions, the j-th being the input's
\* j-th matching position (order kept, nothing added, dropped or duplicated).
C8_FilterExact ==
    fPc = "done" =>
        LET keep == KeptIdx(fIn.f.Include.Extension, fIn.data)
        IN  /\ Len(fOut) = Cardinality(keep)
            /\ \A j \in 1..Len(fOut) : fOut[j] = fIn.data[NthOf(keep, j)]

\* C8 witness: a call that keeps a suffixed name, drops a name and keeps two
\* names in their input order.
C8_Witness ==
    /\ fPc = "done"
    /\ Len(fOut) = 2
    /\ Len(fIn.data) = 3
    /\ fOut[1] = aGoB64
    /\ fOut[2] # fOut[1]

\* ---------------------------------------------------------- claims on Run

\* The results engine e has put on the channel, in order.
SentBy(e) == SelectSeq(sendLog, LAMBDA x : x.from = e)

\* The goroutine positions at a channel send.
SendPcs == {"sendMarshalErr", "sendRoutineErr", "sendResult", "sendEmpty"}

\* The names among Run's files that pass the include filter of engine e.
Included(e) ==
    {rIn.files[i] : i \in KeptIdx(cfg.Lints[e].Filter.Include.Extension, rIn.files)}

\* The finding lists of the results xs from index i on, one after another.
RECURSIVE ConcatData(_, _)
ConcatData(xs, i) ==
    IF i > Len(xs) THEN <<>> ELSE xs[i].data.v \o ConcatData(xs, i + 1)

\* The first result each engine sent, in configuration order.
InConfigOrder == [e \in Engines |-> SentBy(e)[1]]

\* C1: once Run has returned, if an engine failed (marshal or routine
\* returned an error) then Run returned a nil list and a non-nil error, and
\* the error is one a failing engine put on the channel.
C1_FailFast ==
    (a.pc = "done" /\ \E e \in Engines : g[e].failed # {}) =>
        /\ rOut.err # NoErr
        /\ rOut.data = NilSlice
        /\ \E i \in 1..Len(sendLog) :
              /\ sendLog[i].err = rOut.err
              /\ g[sendLog[i].from].failed # {}

\* C1 witness: Run returned an error after it had gathered the findings of
\* an engine that succeeded.
C1_Witness ==
    /\ a.pc = "done"
    /\ rOut.err # NoErr
    /\ Len(a.ret.v) > 0
    /\ \E e \in Engines : g[e].pc = "done" /\ g[e].failed = {}

\* C2: every engine goroutine puts at most one result on the channel,
\* exactly one once it has finished, and the results drained come from
\* distinct engines.
C2_ExactlyOneResult ==
    /\ \A e \in Engines : Len(SentBy(e)) <= 1
    /\ \A e \in Engines : g[e].pc = "done" => Len(SentBy(e)) = 1
    /\ \A i, j \in 1..Len(drained) : drained[i].from = drained[j].from => i = j

\* C3: whenever an engine goroutine is at a send, fewer results are buffered
\* than the channel holds, so the send does not block.
C3_SendNeverBlocks ==
    \A e \in Engines : g[e].pc \in SendPcs => Len(ch) < Cap

\* C4 (as claimed): when every engine succeeded, Run returns the engines'
\* finding lists concatenated in configuration order.
C4_ConfigOrder ==
    (a.pc = "done" /\ rOut.err = NoErr /\ \A e \in Engines : g[e].failed = {}) =>
        rOut.data.v = ConcatData(InConfigOrder, 1)

\* C4 (amended): when every engine succeeded, Run returns the engines'
\* finding lists concatenated in the order in which the results were put on
\* the channel.
C4_ArrivalOrder ==
    (a.pc = "done" /\ rOut.err = NoErr /\ \A e \in Engines : g[e].failed = {}) =>
        rOut.data.v = ConcatData(sendLog, 1)

\* C4 witness: every engine succeeded and Run returned findings of two
\* engines in an order that is not the configuration order.
C4_Witness ==
    /\ a.pc = "done"
    /\ rOut.err = NoErr
    /\ \A e \in Engines : g[e].failed = {}
    /\ \E e1, e2 \in Engines : e1 # e2 /\ Len(g[e1].r.v) > 0 /\ Len(g[e2].r.v) > 0
    /\ rOut.data.v # ConcatData(InConfigOrder, 1)

\* The staged path of the name n: the root, a slash, the name.  (The names
\* and the root of RunInputs have no empty, "." or ".." component.)
StagedPath(n) == rIn.root \o <<"/">> \o n

\* The filtered files of engine e are not empty and all readable.
Readable(e) ==
    LET names == Included(e)
    IN  /\ names # {}
        /\ \A n \in names : n # <<>> /\ StagedPath(n) \in DOMAIN disk

\* C6: an engine whose filtered file set is not empty and all readable never
\* issues more than one call, and once routine has returned it has issued
\* exactly one, to its own address, whose payload maps exactly the filtered
\* names to the staged contents.
C6_OneCallExactPayload ==
    \A e \in Engines : Readable(e) =>
        /\ Len(rpcCalls[e]) <= 1
        /\ g[e].pc \in {"sendRoutineErr", "sendResult", "done"} =>
              /\ Len(rpcCalls[e]) = 1
              /\ rpcCalls[e][1].addr =
                    cfg.Lints[e].Host \o <<":">> \o Itoa(cfg.Lints[e].Port)
              /\ rpcCalls[e][1].message =
                    MkSlice([n \in Included(e) |-> disk[StagedPath(n)]])

\* C6 witness: an engine has finished after one call that carried two of the
\* three files.
C6_Witness ==
    \E e \in Engines :
        /\ Readable(e)
        /\ g[e].pc = "done"
        /\ Len(rIn.files) = 3
        /\ Cardinality(DOMAIN rpcCalls[e][1].message.v) = 2

\* C7: an engine none of whose files pass its filter issues no call, opens
\* no staged file, puts at most one result on the channel, exactly one once
\* it has finished, and that result is an empty list with no error.
C7_EmptyFilterShortCircuit ==
    \A e \in Engines : (g[e].pc # "idle" /\ Included(e) = {}) =>
        /\ rpcCalls[e] = <<>>
        /\ opened[e] = <<>>
        /\ Len(SentBy(e)) <= 1
        /\ g[e].pc = "done" => Len(SentBy(e)) = 1
        /\ \A i \in 1..Len(SentBy(e)) :
              SentBy(e)[i].data = EmptySlice /\ SentBy(e)[i].err = NoErr

\* C7 witness: an engine with files to look at, none of which pass its
\* filter, has finished.
C7_Witness ==
    \E e \in Engines :
        /\ Included(e) = {}
        /\ Len(rIn.files) > 0
        /\ g[e].pc = "done"

\* The findings of a reply message in the order of its text: group after
\* group, each group's list in its own order.
InReplyOrder(reply) == FlattenFrom(reply.groups, reply.keys, 1)

\* The results without error that engine e put on the channel after a call
\* that returned a reply which routine decoded.
Contributed(e) ==
    SelectSeq(sendLog, LAMBDA x : x.from = e /\ x.err = NoErr)

\* C15: what an engine contributes after its call returned a decoded reply
\* is the findings of that reply in the order of the reply, so that the same
\* reply gives the same sequence every time.
C15_ReplyOrderPreserved ==
    \A e \in Engines :
        (rpcCalls[e] # <<>> /\ "routine" \notin g[e].failed) =>
            \A i \in 1..Len(Contributed(e)) :
                Contributed(e)[i].data.v = InReplyOrder(rpcCalls[e][1].env.reply)

\* C16: Run eventually returns.
C16_RunTerminates == <>(a.pc = "done")

\* C16 witness: Run has returned on an error of one of two engines, and has
\* received one result only.
C16_Witness ==
    /\ a.pc = "done"
    /\ Len(cfg.Lints) = 2
    /\ rOut.err # NoErr
    /\ Len(drained) = 1

\* C17: every engine goroutine eventually terminates.
C17_GoroutinesTerminate == <>(\A e \in Engines : g[e].pc = "done")

\* C18: an engine makes a call only when its filtered files are all
\* readable, after a marshal that did not fail, and never with an absent
\* payload.
C18_NoCallAfterMarshalFailure ==
    \A e \in Engines : \A i \in 1..Len(rpcCalls[e]) :
        /\ Readable(e)
        /\ "marshal" \notin g[e].failed
        /\ ~rpcCalls[e][i].message.nil

\* The finding lists that the engines put on the channel, one after another
\* in the order p of the engines.
InEngineOrder(p) == ConcatData([i \in 1..Len(p) |-> SentBy(p[i])[1]], 1)

\* C19: when Run has returned and no step of any engine failed, every engine
\* has put exactly one result on the channel, and what Run returned is the
\* finding lists of these results one after another, each whole and in its
\* own order, in some order of the engines.
C19_ConcatenationOfBlocks ==
    (a.pc = "done" /\ \A e \in Engines : g[e].pc = "done" /\ g[e].failed = {}) =>
        /\ rOut.err = NoErr
        /\ \A e \in Engines : Len(SentBy(e)) = 1
        /\ \E p \in Perms(Engines) : rOut.data.v = InEngineOrder(p)

\* C19 witness: two engines succeeded with findings, and Run returned those
\* of the second engine before those of the first.
C19_Witness ==
    /\ a.pc = "done"
    /\ Len(cfg.Lints) = 2
    /\ \A e \in Engines : g[e].pc = "done" /\ g[e].failed = {} /\ Len(g[e].r.v) > 0
    /\ rOut.data.v = InEngineOrder(<<2, 1>>)
    /\ rOut.data.v # InEngineOrder(<<1, 2>>)

\* --------------------------------------------------------- claims on Vote

\* The bodies of the reviews posted, in order.
Posted == SelectSeq(http, LAMBDA q : q.method = "POST")

\* The findings of data on file, as the comment entries they make.
EntriesOf(data, file) ==
    LET idx == {i \in 1..Len(data) : data[i].File = file}
    IN  [j \in 1..Cardinality(idx) |->
            [line |-> data[NthOf(idx, j)].Line, message |-> data[NthOf(idx, j)].Details]]

\* The number of comment entries of a comments map, summed over its files.
RECURSIVE EntryCount(_, _)
EntryCount(c, files) ==
    IF files = {} THEN 0
    ELSE LET f == CHOOSE x \in files : TRUE
         IN  Len(c[f]) + EntryCount(c, files \ {f})

\* C9: every review Vote posts carries exactly one label entry, for the
\* configured label, and the configured message; its value is the approval
\* value and its comments have no entry when the findings are empty, and
\* the disapproval value with comments that have entries when they are not.
C9_VoteBranching ==
    \A i \in 1..Len(Posted) :
        LET p == Posted[i].body
        IN  /\ DOMAIN p.labels = {rv.Vote.Label}
            /\ p.message = rv.Vote.Message
            /\ Len(vIn.data.v) = 0 =>
                  /\ p.labels[rv.Vote.Label] = rv.Vote.Approval
                  /\ DOMAIN p.comments.v = {}
            /\ Len(vIn.data.v) # 0 =>
                  /\ p.labels[rv.Vote.Label] = rv.Vote.Disapproval
                  /\ DOMAIN p.comments.v # {}

\* C9 witness: a review was posted for an empty list of findings that is
\* not nil.
C9_Witness ==
    /\ Len(Posted) = 1
    /\ vIn.data = EmptySlice
    /\ vt.pc = "done"

\* C10: the comments of a review posted for findings that are not empty
\* have exactly the files of the findings as keys; under each file are the
\* line and message of the findings on that file, in the order of the
\* findings; and there are as many entries as findings.
C10_VoteGrouping ==
    \A i \in 1..Len(Posted) :
        LET c == Posted[i].body.comments.v
            d == vIn.data.v
        IN  Len(d) # 0 =>
              /\ DOMAIN c = {d[k].File : k \in 1..Len(d)}
              /\ \A f \in DOMAIN c : c[f] = EntriesOf(d, f)
              /\ EntryCount(c, DOMAIN c) = Len(d)

\* C10 witness: a review was posted for three findings on two files, the
\* findings of one file apart from each other.
C10_Witness ==
    /\ Len(Posted) = 1
    /\ Len(vIn.data.v) = 3
    /\ vIn.data.v[1].File = vIn.data.v[3].File
    /\ vIn.data.v[1].File # vIn.data.v[2].File
    /\ vIn.data.v[1] # vIn.data.v[3]

\* Whether the response rsp was delivered with a success status and a body.
Delivered(rsp) == rsp.do /\ rsp.status = 200 /\ rsp.read

\* Whether the response rsp to a query matched a change: it was delivered
\* and its body lists at least one change.
Matched(rsp) ==
    Delivered(rsp) /\ ~rsp.body.short /\ rsp.body.json /\ Len(rsp.body.list) > 0

\* C11: the first request of Vote is the query of the commit; at most one
\* request follows it, the review POST, and only after a query that matched
\* a change, addressed to the change number and the number of the current
\* revision of that response; a Vote that has returned without a POST, or
\* after a POST that was not answered with a success status, has returned
\* an error.
C11_VoteQueryThenPost ==
    /\ Len(http) <= 2 /\ Len(replies) = Len(http)
    /\ vt.pc # "query" => Len(http) >= 1
    /\ Len(http) >= 1 =>
          http[1] = Request(rv, "GET",
                            urlQuery(rv, <<"commit:", vIn.commit>>, <<"CURRENT_REVISION">>, 0),
                            <<>>)
    /\ Len(http) = 2 =>
          /\ Matched(replies[1])
          /\ http[2].method = "POST"
          /\ LET obj == replies[1].body.list[1]
             IN  http[2].url =
                     urlReview(rv, obj.number, obj.revisions[obj.current_revision].number)
    /\ (vt.pc = "done" /\ Len(http) = 1) => vt.err # NoErr /\ Len(Posted) = 0
    /\ (vt.pc = "done" /\ ~Matched(replies[1])) => Len(http) = 1
    /\ (vt.pc = "done" /\ Len(http) = 2 /\ ~(replies[2].do /\ replies[2].status = 200))
          => vt.err # NoErr

\* C11 witness: the revision advanced before the query, the review was
\* posted to the advanced revision, and the POST was answered with a status
\* that is not a success.
C11_Witness ==
    /\ vt.pc = "done"
    /\ Len(http) = 2
    /\ srv[vIn.commit] > 1
    /\ http[2].url.revision = srv[vIn.commit]
    /\ replies[2].do /\ replies[2].status # 200
    /\ vt.err # NoErr

\* -------------------------------------------------------- claims on Fetch

\* C5: when an engine goroutine of Run marshals files that a successful
\* Fetch returned, under the root that Fetch returned, every file opens
\* and the payload maps each name to the content Fetch downloaded for it.
C5_FetchDispatchRoundTrip ==
    \A r \in runs : dr[r].pc = "read" =>
        /\ dr[r].err = NoErr
        /\ dr[r].ret = MkSlice([n \in {dr[r].f[i] : i \in 1..Len(dr[r].f)} |-> fe[r].got[n]])

\* The names Fetch stages for run r: the patch and the files of the change.
StagedNames(r) == {Base64Patch} \cup fe[r].current.files

\* C12: once Fetch has returned success (here for a run that is alone, so that
\* the disk holds its files only), the patch and every file of the change
\* were downloaded, and the disk holds exactly one file for each, written
\* completely with what was downloaded.
C12_FetchSuccessMeansStaged ==
    \A r \in runs : (runs = {r} /\ fe[r].pc = "fetched") =>
        /\ DOMAIN fe[r].got = StagedNames(r)
        /\ Cardinality(DOMAIN disk) = Cardinality(StagedNames(r))
        /\ \A q \in DOMAIN disk :
              /\ disk[q].whole
              /\ \E n \in StagedNames(r) : disk[q] = fe[r].got[n]

\* Whether the response rsp to a query lists a change with every field Fetch
\* reads, of the expected type.
WellFormed(rsp) ==
    /\ Matched(rsp)
    /\ LET obj == rsp.body.list[1]
       IN  /\ {"revisions", "current_revision", "_number"} \subseteq obj.fields
           /\ obj.current_revision \in DOMAIN obj.revisions
           /\ {"_number", "files"} \subseteq obj.revisions[obj.current_revision].fields

\* The response to the query of run r, when the query was answered.
QueryReply(r) == fe[r].rsps[1]

\* C13: neither Fetch nor Vote ever crashes, and a Fetch whose query was
\* answered with a success status and a body that is not a well-formed,
\* non-empty list of changes has returned an error and sent no other request.
C13_DecodeErrorsNotCrashes ==
    /\ vt.pc # "panic"
    /\ \A r \in runs :
          /\ fe[r].pc # "panic"
          /\ (fe[r].pc # "query" /\ fe[r].reqs # <<>>
                 /\ Delivered(QueryReply(r)) /\ ~WellFormed(QueryReply(r)))
                => fe[r].pc = "failed" /\ fe[r].emsg # NoErr /\ Len(fe[r].reqs) = 1

\* C14: while a run whose Fetch returned success has not been dispatched,
\* the disk holds, for the patch and for every file of its change, a file
\* that this run staged.
C14_RunsDoNotCollide ==
    \A r \in runs : (fe[r].pc = "fetched" /\ dr[r].pc = "none") =>
        \A n \in StagedNames(r) :
            \E q \in DOMAIN disk : disk[q].change = fe[r].change /\ disk[q].file = n

\* C20: a Fetch that has returned an error (here for a run that is alone, so
\* that the disk holds its files only) returned no root and no files; it
\* sent no request after a response that was not delivered; and the disk
\* holds a file, whole or cut short by its own failed write, for every
\* download but possibly the last, and no other file: nothing was written
\* after the failure and nothing written before it was removed.
C20_FetchFailureStopsAndKeeps ==
    \A r \in runs : (runs = {r} /\ fe[r].pc = "failed") =>
        /\ fe[r].emsg # NoErr /\ fe[r].rname = <<>> /\ fe[r].flist = NilSlice
        /\ Len(fe[r].rsps) = Len(fe[r].reqs)
        /\ \A i \in 1..(Len(fe[r].rsps) - 1) : Delivered(fe[r].rsps[i])
        /\ Cardinality(DOMAIN disk) <= Cardinality(DOMAIN fe[r].got)
        /\ Cardinality(DOMAIN disk) >= Cardinality(DOMAIN fe[r].got) - 1
        /\ (fe[r].rsps # <<>> /\ ~Delivered(fe[r].rsps[Len(fe[r].rsps)]))
              => Cardinality(DOMAIN disk) = Cardinality(DOMAIN fe[r].got)
        /\ \A q \in DOMAIN disk :
              \E n \in DOMAIN fe[r].got : disk[q] \in {fe[r].got[n], Partial(fe[r].got[n])}

\* C20 witness: the download of a content file failed after the patch and
\* another content file had been staged, and both are on the disk.
C20_Witness ==
    \E r \in runs :
        /\ runs = {r}
        /\ fe[r].pc = "failed"
        /\ Len(fe[r].rsps) = 4
        /\ ~Delivered(fe[r].rsps[4])
        /\ Cardinality(DOMAIN disk) = 2

====
